---- MODULE Spec2Model ----
(***************************************************************************)
(* A model of nbt2cdb.py: the position codec, the structure decoder, the   *)
(* chunk encoder, the index appender and the insertion loop, with the      *)
(* database file and index.cdb kept as sequences of bytes.                *)
(*                                                                         *)
(* TLC's integers are 32 bits wide, so every unsigned 32-bit quantity of   *)
(* the program (the packed position, MAGIC_CDB) is kept as the four        *)
(* little-endian bytes struct.pack("<I", ...) gives it.                    *)
(***************************************************************************)
EXTENDS Integers, Sequences, FiniteSets, TLC

VARIABLES
    pc,                 \* position of on_insert: idle, parsed, write, index, done, error
    err,                \* the exception that ended on_insert ("" while none)
    doc,                \* the structure document nbt_var names
    gui,                \* the entry fields: start chunk x, z and slot number
    inverse_block_map,  \* the global name -> (runtime_id, metadata) table
    flat,               \* parse_nbt_structure's flat voxel array
    size,               \* parse_nbt_structure's size
    db,                 \* the bytes of the database file
    index,              \* the bytes of index.cdb
    indexExists,        \* whether index.cdb exists next to the database
    subsize,            \* insert_structure: subfile size read from the header
    cx,                 \* insert_structure: inner loop counter
    cz,                 \* insert_structure: outer loop counter
    slot_number,        \* insert_structure: the running slot number
    writes,             \* history: the write_chunk_to_subfile calls that completed
    appends,            \* history: the index records update_index_entry appended
    db0,                \* history: the database file when on_insert started
    index0,             \* history: index.cdb when on_insert started
    codec               \* the position codec exercised on its own (SpecCodec)

vars == <<pc, err, doc, gui, inverse_block_map, flat, size, db, index, indexExists,
          subsize, cx, cz, slot_number, writes, appends, db0, index0, codec>>

insertVars == <<pc, err, doc, gui, inverse_block_map, flat, size, db, index,
                indexExists, subsize, cx, cz, slot_number, writes, appends, db0, index0>>

-----------------------------------------------------------------------------
(* Bounds of the model *)

\* codec inputs lie within PosSlack of -8192, 0 and 8191
PosSlack == 1
\* the start chunk coordinates typed into the GUI lie in -MaxStart..MaxStart
MaxStart == 1

-----------------------------------------------------------------------------
(* Program constants *)

CHUNK == 16
TWO14 == 16384
TWO13 == 8192
HDR_SIZE == 20
SLOT_BASE == 20
BYTE_PLANE == 4096
NIBBLE_PLANE == 4096
UNKNOWN_PLANE == 2048
FOOTER == 256
BIOMES == 256
SECTIONS == 6

\* MAGIC_CDB = 0xABCDEF99 as struct.pack("<I", MAGIC_CDB) writes it
MAGIC_CDB == <<153, 239, 205, 171>>

-----------------------------------------------------------------------------
(* Bytes and struct.pack / struct.unpack *)

Byte == 0..255

Pow256(i) == IF i = 0 THEN 1 ELSE IF i = 1 THEN 256 ELSE IF i = 2 THEN 65536 ELSE 16777216

\* struct.pack of an unsigned little-endian integer of w bytes (n >= 0)
PackU(n, w) == [i \in 1..w |-> (n \div Pow256(i - 1)) % 256]

\* struct.pack("<i", n): two's complement, little-endian
PackI32(n) ==
    IF n >= 0 THEN PackU(n, 4)
    ELSE [i \in 1..4 |-> 255 - ((((-n) - 1) \div Pow256(i - 1)) % 256)]

\* struct.unpack of an unsigned little-endian integer
UnpackU(b) == IF Len(b) = 0 THEN 0
              ELSE IF Len(b) = 1 THEN b[1]
              ELSE IF Len(b) = 2 THEN b[1] + 256 * b[2]
              ELSE b[1] + 256 * b[2] + 65536 * b[3] + 16777216 * b[4]

Zeros(n) == [i \in 1..n |-> 0]

\* F applied to the value of e, which is computed once
Bind(e, F(_)) == CHOOSE y \in {F(x) : x \in {e}} : TRUE

RECURSIVE BitOr(_, _)
\* a | b on non-negative integers
BitOr(a, b) ==
    IF a = 0 THEN b
    ELSE IF b = 0 THEN a
    ELSE (IF a % 2 = 1 \/ b % 2 = 1 THEN 1 ELSE 0) + 2 * BitOr(a \div 2, b \div 2)

-----------------------------------------------------------------------------
(* Position codec *)

\* encode_position: (dim << 28) | (z << 14) | x, as its four little-endian bytes
encode_position(x, z, dim) ==
    LET x1 == IF x < 0 THEN x + TWO14 ELSE x
        z1 == IF z < 0 THEN z + TWO14 ELSE z
        x2 == x1 % TWO14
        z2 == z1 % TWO14
        d2 == dim % 16
    IN  <<x2 % 256, x2 \div 256 + (z2 % 4) * 64, (z2 \div 4) % 256,
          z2 \div 1024 + d2 * 16>>

\* CDBPosition.__init__: the three fields of a 32-bit value given as bytes
CDBPosition(val) ==
    [x |-> val[1] + (val[2] % 64) * 256,
     z |-> val[2] \div 64 + val[3] * 4 + (val[4] % 16) * 1024,
     dimension |-> val[4] \div 16]

\* to_signed with the sign test off by one
to_signed_offbyone(p) ==
    [x |-> IF p.x > TWO13 THEN p.x - TWO14 ELSE p.x,
     z |-> IF p.z > TWO13 THEN p.z - TWO14 ELSE p.z,
     dimension |-> p.dimension]

\* CDBPosition.to_signed
to_signed(p) ==
    [x |-> IF p.x >= TWO13 THEN p.x - TWO14 ELSE p.x,
     z |-> IF p.z >= TWO13 THEN p.z - TWO14 ELSE p.z,
     dimension |-> p.dimension]

\* CDBPosition.parse_position
parse_position(p) ==
    LET s == to_signed(p) IN <<s.x, s.z, s.dimension>>

-----------------------------------------------------------------------------
(* Block names.  A name string is kept as the pair it spells: the plain    *)
(* name and the bracketed k=v list (empty when the string has none), a     *)
(* property key as the rank of its string in lexicographic order.          *)

Text(n) == [name |-> n, props |-> <<>>]

RECURSIVE SortProps(_)
\* sorted(props.items()): the pairs by ascending key
SortProps(props) ==
    IF props = <<>> THEN <<>>
    ELSE LET m == CHOOSE i \in 1..Len(props) :
                      \A j \in 1..Len(props) : props[i][1] <= props[j][1]
             rest == [j \in 1..(Len(props) - 1) |-> IF j < m THEN props[j] ELSE props[j + 1]]
         IN  <<props[m]>> \o SortProps(rest)

\* format_block_name
format_block_name(name, props) ==
    IF props # <<>> THEN [name |-> name.name, props |-> SortProps(props)]
    ELSE name

\* get_block_id on a given table
get_block_id(map, name) ==
    IF name \in DOMAIN map THEN map[name] ELSE <<0, 0>>

RECURSIVE LoadBlockMap(_, _)
\* browse_json's loop: inverse_block_map[format_block_name(v, {})] = (rid, meta)
LoadBlockMap(data, map) ==
    IF data = <<>> THEN map
    ELSE LET k == format_block_name(data[1].name, <<>>)
             m == [n \in (DOMAIN map) \cup {k} |-> IF n = k THEN data[1].key ELSE map[n]]
         IN  LoadBlockMap(Tail(data), m)

EmptyMap == [n \in {} |-> <<0, 0>>]

-----------------------------------------------------------------------------
(* Structure decoder *)

INVALID_NBT == "Invalid NBT"
SIZE_MISMATCH == "Size mismatch"
INDEX_ERROR == "IndexError"
UNPACK_ERROR == "not enough values to unpack"

\* the palette map built by the enumerate loop
Palmap(palette) ==
    [i \in 0..(Len(palette) - 1) |->
        format_block_name(Text(palette[i + 1].Name), palette[i + 1].Properties)]

\* the linear index parse_nbt_structure computes for a block position
FlatIndex(pos, width, length) == pos[2] * (width * length) + pos[3] * width + pos[1]

RECURSIVE PlaceBlocks(_, _, _, _, _)
\* the block loop: flat[idx] = (rid, meta) with Python's list indexing, which
\* counts a negative idx from the end and raises IndexError outside
\* -len(flat) <= idx < len(flat)
PlaceBlocks(blocks, fl, palmap, map, sz) ==
    IF blocks = <<>> THEN [err |-> "", flat |-> fl]
    ELSE LET b == blocks[1]
             name == IF b.state \in DOMAIN palmap THEN palmap[b.state]
                     ELSE Text("minecraft:air")
             id == get_block_id(map, name)
             idx == FlatIndex(b.pos, sz[1], sz[3])
             at == IF idx < 0 THEN idx + Len(fl) ELSE idx
         IN  IF idx >= Len(fl) \/ idx < -Len(fl)
             THEN [err |-> INDEX_ERROR, flat |-> fl]
             ELSE Bind([fl EXCEPT ![at + 1] = id],
                      LAMBDA g : PlaceBlocks(Tail(blocks), g, palmap, map, sz))

\* the final test len(flat) != total
SizeCheck(fl, total) == Len(fl) # total

\* the try block with the defaults of .get() removed: an absent key raises
LoadFailsStrict(d) ==
    \/ ~d.loadable
    \/ ~d.hasSize \/ ~d.hasPalette \/ ~d.hasBlocks
    \/ (d.hasSize /\ ~d.sizeConv)

\* the try block: nbtlib.load fails, or int(d) fails on an element of size
LoadFails(d) ==
    \/ ~d.loadable
    \/ (d.hasSize /\ ~d.sizeConv)

\* parse_nbt_structure: the error raised ("" for none) and the values returned
parse_nbt_structure(d, map) ==
    IF LoadFails(d) THEN [err |-> INVALID_NBT, flat |-> <<>>, size |-> <<>>]
    ELSE
    LET blocks == IF d.hasBlocks THEN d.blocks ELSE <<>>
        sz == IF d.hasSize THEN d.size ELSE <<0, 0, 0>>
        palette == IF d.hasPalette THEN d.palette ELSE <<>>
        palmap == Palmap(palette)
    IN  IF Len(sz) # 3 THEN [err |-> UNPACK_ERROR, flat |-> <<>>, size |-> <<>>]
        ELSE
        LET total == sz[1] * sz[2] * sz[3]
            flat0 == [i \in 1..total |-> <<0, 0>>]
        IN  Bind(PlaceBlocks(blocks, flat0, palmap, map, sz), LAMBDA placed :
                IF placed.err # "" THEN [err |-> placed.err, flat |-> <<>>, size |-> <<>>]
                ELSE IF SizeCheck(placed.flat, total)
                THEN [err |-> SIZE_MISMATCH, flat |-> <<>>, size |-> <<>>]
                ELSE [err |-> "", flat |-> placed.flat, size |-> sz])

-----------------------------------------------------------------------------
(* zlib.compress.  Deflate itself is not modelled bit for bit: the stream   *)
(* is the two-byte zlib header followed by one (count, value) record per    *)
(* run of equal bytes, a lossless coding whose length depends on the data.  *)

ZLIB_HEADER == <<120, 156>>
RUN_SIZE == 4

\* the elements of a finite set of integers in ascending order
Ascending(S) ==
    Bind([k \in S |-> Cardinality({j \in S : j < k}) + 1],
        LAMBDA rank : [n \in 1..Cardinality(S) |-> CHOOSE k \in S : rank[k] = n])

\* the (count, value) records of the runs that start at the given places of s:
\* count on three bytes, then value
RunRecords(s, starts) ==
    [i \in 1..(RUN_SIZE * Len(starts)) |->
        LET r == (i - 1) \div RUN_SIZE + 1
            field == (i - 1) % RUN_SIZE
        IN  IF field = RUN_SIZE - 1 THEN s[starts[r]]
            ELSE PackU((IF r = Len(starts) THEN Len(s) + 1 ELSE starts[r + 1]) - starts[r],
                       RUN_SIZE - 1)[field + 1]]

\* the places of s where a run of equal bytes starts
RunStarts(s) == {k \in 1..Len(s) : k = 1 \/ s[k] # s[k - 1]}

Compress(raw) ==
    ZLIB_HEADER
    \o Bind(Bind(RunStarts(raw), LAMBDA S : Ascending(S)), LAMBDA starts : RunRecords(raw, starts))

RECURSIVE Expand(_, _, _)
\* the bytes the run records lo..hi of body stand for
Expand(body, lo, hi) ==
    IF lo > hi THEN <<>>
    ELSE IF lo = hi
    THEN [i \in 1..UnpackU(<<body[RUN_SIZE * lo - 3], body[RUN_SIZE * lo - 2],
                            body[RUN_SIZE * lo - 1], 0>>) |-> body[RUN_SIZE * lo]]
    ELSE Expand(body, lo, (lo + hi) \div 2) \o Expand(body, (lo + hi) \div 2 + 1, hi)

\* zlib.decompress, the inverse of Compress
Decompress(comp) ==
    Bind(SubSeq(comp, Len(ZLIB_HEADER) + 1, Len(comp)),
        LAMBDA body : Expand(body, 1, Len(body) \div RUN_SIZE))

-----------------------------------------------------------------------------
(* Chunk encoder *)

VALUE_ERROR == "byte must be in range(0, 256)"
STRUCT_ERROR == "struct.error"
MAX_I32 == 2147483647

\* (height + 15) // 16
SubchunkCount(height) == (height + 15) \div CHUNK

\* flat[idx][c] if 0 <= idx < len(flat) else dflt
VoxelOr(fl, idx, c, dflt) ==
    IF 0 <= idx /\ idx < Len(fl) THEN fl[idx + 1][c] ELSE dflt

\* idx = actual_y * (width * length) + wz * width + wx
VoxelIndex(chunk_x, chunk_z, x, z, actual_y, sz) ==
    actual_y * (sz[1] * sz[3]) + (chunk_z * CHUNK + z) * sz[1] + (chunk_x * CHUNK + x)

\* the byte-plane of one subchunk: appended x outer, z middle, sub_y inner
BytePlane(subchunk, chunk_x, chunk_z, fl, sz) ==
    [p \in 1..BYTE_PLANE |->
        LET x == (p - 1) \div (CHUNK * CHUNK)
            z == ((p - 1) \div CHUNK) % CHUNK
            sub_y == (p - 1) % CHUNK
            actual_y == subchunk * CHUNK + sub_y
        IN  IF actual_y >= sz[2] THEN 0
            ELSE VoxelOr(fl, VoxelIndex(chunk_x, chunk_z, x, z, actual_y, sz), 1, 0)]

\* nibble_value for local_index = sub_y * 256 + z * 16 + x
NibbleValue(local_index, subchunk, chunk_x, chunk_z, fl, sz) ==
    LET sub_y == local_index \div (CHUNK * CHUNK)
        z == (local_index \div CHUNK) % CHUNK
        x == local_index % CHUNK
        actual_y == subchunk * CHUNK + sub_y
    IN  IF actual_y >= sz[2] THEN 0
        ELSE VoxelOr(fl, VoxelIndex(chunk_x, chunk_z, x, z, actual_y, sz), 2, 0)

\* the nibble-plane of one subchunk.  Byte byte_i is assigned twice, for
\* local_index 2*byte_i (low nibble) and then 2*byte_i + 1 (high nibble):
\*   nibbles[byte_i] = (nibbles[byte_i] & 0xF0) | nibble_value
\*   nibbles[byte_i] = (nibbles[byte_i] & 0x0F) | (nibble_value << 4)
\* A value a bytearray refuses is kept as -1.  nibbles = bytearray(0x1000)
\* holds NIBBLE_PLANE bytes, of which the loop assigns the first
\* 16 * 16 * 16 / 2; the others stay 0.
NibblePlane(subchunk, chunk_x, chunk_z, fl, sz) ==
    [q \in 1..NIBBLE_PLANE |->
        IF 2 * (q - 1) >= CHUNK * CHUNK * CHUNK THEN 0
        ELSE
        LET even == NibbleValue(2 * (q - 1), subchunk, chunk_x, chunk_z, fl, sz)
            odd == NibbleValue(2 * (q - 1) + 1, subchunk, chunk_x, chunk_z, fl, sz)
            first == even
            second == IF first \in Byte /\ odd >= 0
                      THEN BitOr(first % 16, odd * 16) ELSE -1
        IN  IF first \in Byte /\ second \in Byte THEN second ELSE -1]

RECURSIVE Subchunks(_, _, _, _, _, _)
\* the planes of subchunks s .. count-1 in order
Subchunks(s, count, chunk_x, chunk_z, fl, sz) ==
    IF s >= count THEN <<>>
    ELSE BytePlane(s, chunk_x, chunk_z, fl, sz)
         \o NibblePlane(s, chunk_x, chunk_z, fl, sz)
         \o Zeros(UNKNOWN_PLANE)
         \o Subchunks(s + 1, count, chunk_x, chunk_z, fl, sz)

\* the biome plane: biomes[x * 16 + z] = flat[idx][0] if 0 <= idx < len(flat) else 1
BiomePlane(chunk_x, chunk_z, fl, sz) ==
    [p \in 1..BIOMES |->
        LET x == (p - 1) \div CHUNK
            z == (p - 1) % CHUNK
            wx == chunk_x * CHUNK + x
            wz == chunk_z * CHUNK + z
        IN  VoxelOr(fl, wz * sz[1] + wx, 1, 1)]

\* the raw buffer with the footer block left out
RawBufferNoFooter(chunk_x, chunk_z, fl, sz) ==
    PackU(SubchunkCount(sz[2]), 2)
    \o Subchunks(0, SubchunkCount(sz[2]), chunk_x, chunk_z, fl, sz)
    \o BiomePlane(chunk_x, chunk_z, fl, sz)

\* the raw buffer write_chunk_to_subfile builds
RawBuffer(chunk_x, chunk_z, fl, sz) ==
    PackU(SubchunkCount(sz[2]), 2)
    \o Subchunks(0, SubchunkCount(sz[2]), chunk_x, chunk_z, fl, sz)
    \o Zeros(FOOTER)
    \o BiomePlane(chunk_x, chunk_z, fl, sz)

\* hdr before the section table: position, "<bb" (1, 0), "<HHH" (0, 0, 0)
HdrFixed(chunk_x, chunk_z) ==
    encode_position(chunk_x, chunk_z, 0) \o <<1, 0>> \o Zeros(6)

Sentinel == PackI32(-1) \o PackI32(0) \o PackI32(0) \o PackI32(0)

\* the chunk header: fixed part and the six-slot section table
ChunkHeader(chunk_x, chunk_z, compLen, rawLen) ==
    LET fixed == HdrFixed(chunk_x, chunk_z)
        section_offset == 4 + Len(fixed) + (SECTIONS * 16)
    IN  fixed
        \o PackI32(0) \o PackI32(section_offset) \o PackI32(compLen) \o PackI32(rawLen)
        \o Sentinel \o Sentinel \o Sentinel \o Sentinel \o Sentinel

\* the write on a file that is cut at the end of the data written
WriteAtTruncating(file, off, data) ==
    [i \in 1..(off + Len(data)) |->
        IF i > off THEN data[i - off]
        ELSE IF i <= Len(file) THEN file[i] ELSE 0]

\* f.seek(off); f.write(data) on a file opened "r+b": bytes are overwritten in
\* place, the file grows when the data passes its end, a gap is zero-filled
WriteAt(file, off, data) ==
    LET n == IF off + Len(data) > Len(file) /\ Len(data) > 0
             THEN off + Len(data) ELSE Len(file)
    IN  [i \in 1..n |->
            IF i > off /\ i <= off + Len(data) THEN data[i - off]
            ELSE IF i <= Len(file) THEN file[i] ELSE 0]

\* every value appended to the bytearray is one it accepts
AllBytes(raw) == {i \in 1..Len(raw) : raw[i] \notin Byte} = {}

\* the three f.write calls of write_chunk_to_subfile, in order
ChunkRecordParts(chunk_x, chunk_z, raw, comp) ==
    <<MAGIC_CDB, ChunkHeader(chunk_x, chunk_z, Len(comp), Len(raw)), comp>>

\* write_chunk_to_subfile from zlib.compress to the first f.write
EncodeCompressed(chunk_x, chunk_z, raw, comp) ==
    IF Len(comp) > MAX_I32 \/ Len(raw) > MAX_I32
    THEN [err |-> STRUCT_ERROR, parts |-> <<>>, rawLen |-> 0, compLen |-> 0]
    ELSE [err |-> "", parts |-> ChunkRecordParts(chunk_x, chunk_z, raw, comp),
          rawLen |-> Len(raw), compLen |-> Len(comp)]

\* write_chunk_to_subfile once the raw buffer is built (raw holds -1 or a
\* value above 255 where a bytearray raised ValueError)
EncodeRaw(chunk_x, chunk_z, raw) ==
    IF ~AllBytes(raw)
    THEN [err |-> VALUE_ERROR, parts |-> <<>>, rawLen |-> 0, compLen |-> 0]
    ELSE Bind(Compress(raw), LAMBDA comp : EncodeCompressed(chunk_x, chunk_z, raw, comp))

\* write_chunk_to_subfile up to its first f.write: the error raised ("" for
\* none), the three byte strings it is about to write and the buffer lengths
write_chunk_to_subfile(chunk_x, chunk_z, fl, sz) ==
    IF SubchunkCount(sz[2]) \notin 0..65535
    THEN [err |-> STRUCT_ERROR, parts |-> <<>>, rawLen |-> 0, compLen |-> 0]
    ELSE Bind(RawBuffer(chunk_x, chunk_z, fl, sz),
             LAMBDA raw : EncodeRaw(chunk_x, chunk_z, raw))

\* what the first n of the three f.write calls write
PartsWritten(parts, n) ==
    IF n = 0 THEN <<>>
    ELSE IF n = 1 THEN parts[1]
    ELSE IF n = 2 THEN parts[1] \o parts[2]
    ELSE parts[1] \o parts[2] \o parts[3]

-----------------------------------------------------------------------------
(* Index appender *)

CONSTANT0 == 8447
UNKNOWN0 == 10
UNKNOWN1 == 1
CONSTANT1 == 32768

\* x & 0x3FFF, after x += 1 << 14 when x < 0
Bitfield(x) == (IF x < 0 THEN x + TWO14 ELSE x) % TWO14

\* CDBEntry(...).pack(): eight little-endian u16
CDBEntryPack(x_bf, z_bf, slot, subfile) ==
    PackU(x_bf, 2) \o PackU(z_bf, 2) \o PackU(slot, 2) \o PackU(subfile, 2)
    \o PackU(CONSTANT0, 2) \o PackU(UNKNOWN0, 2) \o PackU(UNKNOWN1, 2) \o PackU(CONSTANT1, 2)

\* update_index_entry writing at the start of index.cdb instead of appending
update_index_entry_rewrite(idx, exists, x, z, slot) ==
    IF ~exists THEN [err |-> "", file |-> idx, wrote |-> FALSE]
    ELSE IF slot \notin 0..65535 THEN [err |-> STRUCT_ERROR, file |-> idx, wrote |-> FALSE]
    ELSE [err |-> "",
          file |-> WriteAt(idx, 0, CDBEntryPack(Bitfield(x), Bitfield(z), slot, 0)),
          wrote |-> TRUE]

\* update_index_entry: the error raised, index.cdb afterwards, whether a
\* record was appended
update_index_entry(idx, exists, x, z, slot) ==
    IF ~exists THEN [err |-> "", file |-> idx, wrote |-> FALSE]
    ELSE IF slot \notin 0..65535 THEN [err |-> STRUCT_ERROR, file |-> idx, wrote |-> FALSE]
    ELSE [err |-> "",
          file |-> idx \o CDBEntryPack(Bitfield(x), Bitfield(z), slot, 0),
          wrote |-> TRUE]

-----------------------------------------------------------------------------
(* File header and insertion loop *)

BAD_HEADER == "Bad FileHeader"
BAD_INT == "invalid literal for int()"
IO_ERROR == "IOError"

\* the header test with a size that leaves the last fields out
HeaderReadableShort(f) == Len(f) >= 16

\* read_file_header succeeds: f.read(size) returned size bytes
HeaderReadable(f) == Len(f) >= HDR_SIZE

\* the fifth field of struct.unpack("<HHIIII", data)
HeaderSubsize(f) == UnpackU(SubSeq(f, 13, 16))

ChunksX(sz) == (sz[1] + 15) \div CHUNK
ChunksZ(sz) == (sz[3] + 15) \div CHUNK

\* the offset with the grid walked x outer
ChunkOffsetXMajor(pcz, pcx, sz, sub) == SLOT_BASE + (pcx * ChunksZ(sz) + pcz) * sub

\* offset = 20 + (cz * chunks_x + cx) * subsize
ChunkOffset(pcz, pcx, sz, sub) == SLOT_BASE + (pcz * ChunksX(sz) + pcx) * sub

\* the number of iterations of the two loops
ChunkTotal(sz) ==
    (IF ChunksX(sz) > 0 THEN ChunksX(sz) ELSE 0) * (IF ChunksZ(sz) > 0 THEN ChunksZ(sz) ELSE 0)

-----------------------------------------------------------------------------
(* Inputs *)

\* property keys by rank: 1 = "facing", 2 = "half"
Palette ==
    <<[Name |-> "minecraft:stone", Properties |-> <<>>],
      [Name |-> "minecraft:stairs", Properties |-> <<<<2, "bottom">>, <<1, "north">>>>],
      [Name |-> "minecraft:observer", Properties |-> <<>>]>>

\* the "blocks" object of the JSON block table, "rid:meta" -> name
BlockJson ==
    <<[key |-> <<5, 3>>, name |-> Text("minecraft:stone")],
      [key |-> <<53, 15>>,
       name |-> [name |-> "minecraft:stairs", props |-> <<<<1, "north">>, <<2, "bottom">>>>]],
      [key |-> <<256, 0>>, name |-> Text("minecraft:observer")]>>

Blk(x, y, z, s) == [pos |-> <<x, y, z>>, state |-> s]

Doc(sz, blocks) ==
    [loadable |-> TRUE, hasSize |-> TRUE, sizeConv |-> TRUE, size |-> sz,
     hasPalette |-> TRUE, palette |-> Palette, hasBlocks |-> TRUE, blocks |-> blocks]

\* documents whose blocks all lie inside the declared size
SoundDocs ==
    {Doc(<<1, 1, 1>>, <<Blk(0, 0, 0, 0)>>),
     Doc(<<1, 1, 1>>, <<Blk(0, 0, 0, 2)>>),
     Doc(<<10, 1, 2>>, <<Blk(2, 0, 1, 0)>>),
     Doc(<<17, 1, 17>>, <<Blk(0, 0, 0, 0), Blk(16, 0, 16, 1)>>),
     Doc(<<16, 17, 16>>, <<Blk(0, 0, 0, 0), Blk(15, 16, 15, 1)>>),
     Doc(<<1, 0, 1>>, <<>>),
     Doc(<<-1, 1, 1>>, <<>>)}

\* documents with a block outside the declared size
CorruptDocs ==
    {Doc(<<2, 1, 2>>, <<Blk(2, 0, 0, 0)>>),
     Doc(<<2, 1, 1>>, <<Blk(0, 0, 1, 0)>>),
     Doc(<<2, 1, 2>>, <<Blk(0, 0, -1, 0)>>)}

\* documents that cannot be loaded, lack a key, or carry a malformed size
DefectiveDocs ==
    LET d == Doc(<<1, 1, 1>>, <<Blk(0, 0, 0, 0)>>)
        e == Doc(<<1, 1, 1>>, <<>>)
    IN  {[d EXCEPT !.loadable = FALSE],
         [e EXCEPT !.hasSize = FALSE],
         [d EXCEPT !.hasSize = FALSE],
         [d EXCEPT !.hasPalette = FALSE],
         [d EXCEPT !.hasBlocks = FALSE],
         [d EXCEPT !.sizeConv = FALSE],
         [d EXCEPT !.size = <<1, 1>>]}

Docs == SoundDocs \cup CorruptDocs \cup DefectiveDocs

\* the entry fields; ok is FALSE when one of them is no integer literal
Guis ==
    {[start_x |-> sx, start_z |-> sz, slot |-> sl, ok |-> TRUE] :
        sx \in (-MaxStart)..MaxStart, sz \in {0}, sl \in {7}}
    \cup {[start_x |-> 0, start_z |-> -MaxStart, slot |-> 65535, ok |-> TRUE]}
    \cup {[start_x |-> 0, start_z |-> 0, slot |-> 0, ok |-> FALSE]}

\* a database file: the 20 header bytes and n pre-allocated slots of sub bytes
MakeDb(sub, n) ==
    PackU(1, 2) \o PackU(0, 2) \o PackU(n, 4) \o PackU(SLOT_BASE + n * sub, 4)
    \o PackU(sub, 4) \o PackU(0, 4) \o [i \in 1..(n * sub) |-> 238]

DbFiles ==
    {MakeDb(256, 4), MakeDb(128, 2),
     SubSeq(MakeDb(256, 4), 1, 22), SubSeq(MakeDb(256, 4), 1, 18)}

\* index.cdb: absent, or holding one earlier record
IndexFiles ==
    {[exists |-> FALSE, bytes |-> <<>>],
     [exists |-> TRUE, bytes |-> CDBEntryPack(3, 16383, 2, 0)]}

CodecIdle == [pc |-> "off", x |-> 0, z |-> 0, dim |-> 0, val |-> <<0, 0, 0, 0>>,
              out |-> <<0, 0, 0>>]

-----------------------------------------------------------------------------
(* The insertion: on_insert, insert_structure and their steps *)

Init ==
    /\ pc = "idle"
    /\ err = ""
    /\ doc \in Docs
    /\ gui \in Guis
    /\ inverse_block_map = EmptyMap
    /\ flat = <<>>
    /\ size = <<0, 0, 0>>
    /\ db \in DbFiles
    /\ \E f \in IndexFiles : index = f.bytes /\ indexExists = f.exists
    /\ subsize = 0
    /\ cx = 0
    /\ cz = 0
    /\ slot_number = 0
    /\ writes = <<>>
    /\ appends = <<>>
    /\ db0 = db
    /\ index0 = index
    /\ codec = CodecIdle

Fail(e) ==
    /\ pc' = "error"
    /\ err' = e

\* browse_json: the block table is loaded before the insertion starts
BrowseJson ==
    /\ pc = "idle"
    /\ inverse_block_map = EmptyMap
    /\ inverse_block_map' = LoadBlockMap(BlockJson, EmptyMap)
    /\ UNCHANGED <<pc, err, doc, gui, flat, size, db, index, indexExists, subsize, cx, cz,
                   slot_number, writes, appends, db0, index0, codec>>

\* on_insert, first statement: flat, size = parse_nbt_structure(...)
Parse ==
    /\ pc = "idle"
    /\ \E r \in {parse_nbt_structure(doc, inverse_block_map)} :
           IF r.err # ""
           THEN Fail(r.err) /\ UNCHANGED <<flat, size>>
           ELSE pc' = "parsed" /\ flat' = r.flat /\ size' = r.size /\ UNCHANGED err
    /\ UNCHANGED <<doc, gui, inverse_block_map, db, index, indexExists, subsize, cx, cz,
                   slot_number, writes, appends, db0, index0, codec>>

\* on_insert's int(...) conversions, then insert_structure up to its loop:
\* open(cdb_path, "r+b"), read_file_header, chunks_x, chunks_z
Open ==
    /\ pc = "parsed"
    /\ IF ~gui.ok THEN Fail(BAD_INT) /\ UNCHANGED <<subsize, slot_number>>
       ELSE IF ~HeaderReadable(db) THEN Fail(BAD_HEADER) /\ UNCHANGED <<subsize, slot_number>>
       ELSE /\ subsize' = HeaderSubsize(db)
            /\ slot_number' = gui.slot
            /\ pc' = IF ChunkTotal(size) = 0 THEN "done" ELSE "write"
            /\ UNCHANGED err
    /\ UNCHANGED <<doc, gui, inverse_block_map, flat, size, db, index, indexExists, cx, cz,
                   writes, appends, db0, index0, codec>>

\* open(cdb_path, "r+b") or f.read fails with an I/O error
OpenIOError ==
    /\ pc = "parsed"
    /\ gui.ok
    /\ Fail(IO_ERROR)
    /\ UNCHANGED <<doc, gui, inverse_block_map, flat, size, db, index, indexExists, subsize,
                   cx, cz, slot_number, writes, appends, db0, index0, codec>>

\* one loop iteration, first half: write_chunk_to_subfile.  It raises while
\* building the record, or writes the record, or fails with an I/O error at
\* f.seek or at one of the three f.write calls, what it wrote before staying
WriteChunk ==
    /\ pc = "write"
    /\ LET offset == ChunkOffset(cz, cx, size, subsize)
           chunk_x == gui.start_x + cx
           chunk_z == gui.start_z + cz
       IN  \E r \in {write_chunk_to_subfile(chunk_x, chunk_z, flat, size)} :
           IF r.err # ""
           THEN Fail(r.err) /\ UNCHANGED <<db, writes>>
           ELSE \E n \in 0..3 : \E data \in {PartsWritten(r.parts, n)} :
                  /\ db' = WriteAt(db, offset, data)
                  /\ IF n < 3
                     THEN Fail(IO_ERROR) /\ UNCHANGED writes
                     ELSE /\ writes' = Append(writes, [offset |-> offset,
                                                       chunk_x |-> chunk_x,
                                                       chunk_z |-> chunk_z,
                                                       rawLen |-> r.rawLen,
                                                       compLen |-> r.compLen])
                          /\ pc' = "index"
                          /\ UNCHANGED err
    /\ UNCHANGED <<doc, gui, inverse_block_map, flat, size, index, indexExists, subsize,
                   cx, cz, slot_number, appends, db0, index0, codec>>

\* the loop counters after one iteration, and whether the loops are over
Advance ==
    /\ slot_number' = slot_number + 1
    /\ IF cx + 1 < ChunksX(size)
       THEN cx' = cx + 1 /\ cz' = cz /\ pc' = "write"
       ELSE /\ cx' = 0
            /\ cz' = cz + 1
            /\ pc' = IF cz + 1 < ChunksZ(size) THEN "write" ELSE "done"

\* one loop iteration, second half: update_index_entry and slot_number += 1
AppendIndex ==
    /\ pc = "index"
    /\ LET x == gui.start_x + cx
           z == gui.start_z + cz
       IN  \E r \in {update_index_entry(index, indexExists, x, z, slot_number)} :
           IF r.err # ""
           THEN Fail(r.err) /\ UNCHANGED <<index, appends, cx, cz, slot_number>>
           ELSE /\ index' = r.file
                /\ appends' = IF r.wrote
                              THEN Append(appends, [x |-> x, z |-> z, slot |-> slot_number])
                              ELSE appends
                /\ Advance
                /\ UNCHANGED err
    /\ UNCHANGED <<doc, gui, inverse_block_map, flat, size, db, indexExists, subsize,
                   writes, db0, index0, codec>>

\* open(index_path, "ab") or its write fails with an I/O error
AppendIndexIOError ==
    /\ pc = "index"
    /\ indexExists
    /\ slot_number \in 0..65535
    /\ Fail(IO_ERROR)
    /\ UNCHANGED <<doc, gui, inverse_block_map, flat, size, db, index, indexExists, subsize,
                   cx, cz, slot_number, writes, appends, db0, index0, codec>>

Next ==
    \/ BrowseJson
    \/ Parse
    \/ Open
    \/ OpenIOError
    \/ WriteChunk
    \/ AppendIndex
    \/ AppendIndexIOError

Spec == Init /\ [][Next]_vars

-----------------------------------------------------------------------------
(* The position codec on its own *)

PosCoords ==
    ((-TWO13)..(-TWO13 + PosSlack)) \cup ((-PosSlack)..PosSlack)
    \cup ((TWO13 - 1 - PosSlack)..(TWO13 - 1))

InitCodec ==
    /\ pc = "idle"
    /\ err = ""
    /\ doc = Doc(<<1, 1, 1>>, <<>>)
    /\ gui = [start_x |-> 0, start_z |-> 0, slot |-> 0, ok |-> TRUE]
    /\ inverse_block_map = EmptyMap
    /\ flat = <<>>
    /\ size = <<0, 0, 0>>
    /\ db = <<>>
    /\ index = <<>>
    /\ indexExists = FALSE
    /\ subsize = 0
    /\ cx = 0
    /\ cz = 0
    /\ slot_number = 0
    /\ writes = <<>>
    /\ appends = <<>>
    /\ db0 = <<>>
    /\ index0 = <<>>
    /\ \E x \in PosCoords, z \in PosCoords, dim \in 0..15 :
           codec = [pc |-> "start", x |-> x, z |-> z, dim |-> dim,
                    val |-> <<0, 0, 0, 0>>, out |-> <<0, 0, 0>>]

\* val = encode_position(x, z, dim)
Encode ==
    /\ codec.pc = "start"
    /\ codec' = [codec EXCEPT !.pc = "encoded",
                              !.val = encode_position(codec.x, codec.z, codec.dim)]
    /\ UNCHANGED insertVars

\* out = CDBPosition(val).parse_position()
Decode ==
    /\ codec.pc = "encoded"
    /\ codec' = [codec EXCEPT !.pc = "decoded",
                              !.out = parse_position(CDBPosition(codec.val))]
    /\ UNCHANGED insertVars

NextCodec == Encode \/ Decode

SpecCodec == InitCodec /\ [][NextCodec]_vars

-----------------------------------------------------------------------------
(* Properties *)

\* the write_chunk_to_subfile call that completed last
LastWrite == writes[Len(writes)]

\* where the record of a completed write ends in the file
RecordEnd(w) == w.offset + 112 + w.compLen

\* the raw buffer read back from the record of the last write
WrittenRaw ==
    Decompress(SubSeq(db, LastWrite.offset + 113, LastWrite.offset + 112 + LastWrite.compLen))

\* the document loads, has a size of three integers, and a block entry lies
\* outside the box the size declares
OutOfBox(d) ==
    /\ d.loadable /\ d.hasSize /\ d.sizeConv /\ d.hasBlocks
    /\ Len(d.size) = 3
    /\ \E i \in 1..Len(d.blocks) : \E c \in 1..3 :
           d.blocks[i].pos[c] < 0 \/ d.blocks[i].pos[c] >= d.size[IF c = 1 THEN 1 ELSE IF c = 2 THEN 2 ELSE 3]

\* C1: for x, z in [-8192, 8191] and dim in [0, 15], decoding the value
\* encode_position gives returns (x, z, dim); encode_position(-1, -1, 0) is
\* 0x0FFFFFFF (bytes FF FF FF 0F) and decoding 0x0FFFFFFF gives (-1, -1, 0)
C1_RoundTrip ==
    /\ codec.pc = "decoded" => codec.out = <<codec.x, codec.z, codec.dim>>
    /\ (codec.pc \in {"encoded", "decoded"} /\ <<codec.x, codec.z, codec.dim>> = <<-1, -1, 0>>)
           => codec.val = <<255, 255, 255, 15>>
    /\ (codec.pc = "decoded" /\ codec.val = <<255, 255, 255, 15>>)
           => codec.out = <<-1, -1, 0>>

C1_Witness ==
    /\ codec.pc = "decoded"
    /\ codec.x = -8192 /\ codec.z = 8191 /\ codec.dim = 15
    /\ codec.out = <<-8192, 8191, 15>>

\* C2: a document whose declared size disagrees with the positions of its
\* block entries makes parse_nbt_structure fail with "Size mismatch"; no flat
\* array with a misplaced block is returned
C2_CorruptSizeRaisesSizeMismatch ==
    (pc # "idle" /\ OutOfBox(doc)) => (pc = "error" /\ err = SIZE_MISMATCH)

\* C3 as stated: parse_nbt_structure fails with "Invalid NBT" whenever size,
\* palette or blocks is absent or the size is not three integers
C3_AbsentKeyRaisesInvalidNbt ==
    (pc # "idle" /\ doc.loadable
        /\ (~doc.hasSize \/ ~doc.hasPalette \/ ~doc.hasBlocks \/ ~doc.sizeConv
            \/ Len(doc.size) # 3))
    => (pc = "error" /\ err = INVALID_NBT)

\* C3 amended: parse_nbt_structure fails with "Invalid NBT", returning
\* nothing, exactly when the document cannot be loaded or an element of size
\* is not convertible to an integer; an absent size, palette or blocks key is
\* read as its default and never raises "Invalid NBT", and a size that
\* converts but has not three elements raises the unpacking ValueError
C3_InvalidNbtOnLoadFailure ==
    pc # "idle" =>
        /\ (~doc.loadable \/ (doc.hasSize /\ ~doc.sizeConv))
               => (pc = "error" /\ err = INVALID_NBT /\ flat = <<>> /\ size = <<0, 0, 0>>
                   /\ db = db0 /\ index = index0)
        /\ (doc.loadable /\ (doc.hasSize => doc.sizeConv)) => err # INVALID_NBT
        /\ (doc.loadable /\ doc.hasSize /\ doc.sizeConv /\ Len(doc.size) # 3)
               => (pc = "error" /\ err = UNPACK_ERROR)

C3_Witness ==
    /\ pc = "error" /\ err = INVALID_NBT
    /\ doc.loadable /\ doc.hasSize /\ ~doc.sizeConv

\* C4: with index.cdb present, a successful insert_structure performs
\* n = ceil(width/16) * ceil(length/16) chunk writes and appends n 16-byte
\* index records after the earlier ones, which stay; for k = cz*chunks_x + cx
\* the k-th chunk is written at offset 20 + k*subfile_size with position
\* (start_x+cx, start_z+cz) and the k-th appended record carries the 14-bit
\* bitfields of that position and slot s + k
C4_ChunkGridInOrder ==
    (pc = "done" /\ indexExists) =>
        LET chunks_x == (size[1] + 15) \div 16
            chunks_z == (size[3] + 15) \div 16
            n == IF chunks_x > 0 /\ chunks_z > 0 THEN chunks_x * chunks_z ELSE 0
            sub == UnpackU(SubSeq(db0, 13, 16))
        IN  /\ Len(writes) = n
            /\ Len(appends) = n
            /\ Len(index) = Len(index0) + 16 * n
            /\ SubSeq(index, 1, Len(index0)) = index0
            /\ \A k \in 0..(n - 1) :
                 LET kx == gui.start_x + (k % chunks_x)
                     kz == gui.start_z + (k \div chunks_x)
                     off == 20 + k * sub
                 IN  /\ writes[k + 1].offset = off
                     /\ writes[k + 1].chunk_x = kx
                     /\ writes[k + 1].chunk_z = kz
                     /\ SubSeq(db, off + 1, off + 4) = <<153, 239, 205, 171>>
                     /\ parse_position(CDBPosition(SubSeq(db, off + 5, off + 8))) = <<kx, kz, 0>>
                     /\ appends[k + 1] = [x |-> kx, z |-> kz, slot |-> gui.slot + k]
                     /\ SubSeq(index, Len(index0) + 16 * k + 1, Len(index0) + 16 * k + 16)
                          = PackU(kx % 16384, 2) \o PackU(kz % 16384, 2)
                            \o PackU(gui.slot + k, 2) \o <<0, 0>>
                            \o <<255, 32, 10, 0, 1, 0, 0, 128>>

C4_Witness ==
    /\ pc = "done" /\ indexExists
    /\ Len(writes) = 4 /\ Len(appends) = 4
    /\ gui.start_x = -1
    /\ LastWrite.chunk_x = 0 /\ LastWrite.offset = 20 + 3 * subsize

\* C5 as stated: nothing is written to the database file or to index.cdb
\* before the structure is parsed and the 24-byte header is read in full
C5_NoWriteBefore24ByteHeader ==
    (pc # "error" /\ (db # db0 \/ index # index0)) => Len(db0) >= 24

\* C5 amended: nothing is written to the database file or to index.cdb
\* before the structure is parsed and the 20-byte header ("<HHIIII") is read
\* in full; "Bad FileHeader" is raised when fewer than 20 bytes are
\* available, and when parse_nbt_structure or read_file_header raises, both
\* files are as they were
C5_NoWriteBeforeHeader ==
    /\ (db # db0 \/ index # index0)
           => (Len(db0) >= 20 /\ parse_nbt_structure(doc, inverse_block_map).err = "")
    /\ pc \in {"idle", "parsed"} => (db = db0 /\ index = index0)
    /\ (pc \notin {"idle", "parsed"} /\ gui.ok /\ Len(db0) < 20
            /\ parse_nbt_structure(doc, inverse_block_map).err = "")
           => (pc = "error" /\ err \in {BAD_HEADER, IO_ERROR})
    /\ (pc = "error"
            /\ err \in {INVALID_NBT, SIZE_MISMATCH, INDEX_ERROR, UNPACK_ERROR, BAD_HEADER})
           => (db = db0 /\ index = index0 /\ writes = <<>> /\ appends = <<>>)

C5_Witness ==
    /\ pc = "error" /\ err = BAD_HEADER
    /\ Len(db0) = 18 /\ flat # <<>>
    /\ db = db0 /\ index = index0

\* C6 as stated: write_chunk_to_subfile never changes the length of the
\* database file, and every record stays inside its slot
C6_FileLengthNeverChanges ==
    pc \in {"write", "index", "done"} =>
        /\ Len(db) = Len(db0)
        /\ \A i \in 1..Len(writes) : 112 + writes[i].compLen <= subsize

\* C6 amended: write_chunk_to_subfile never truncates the database file and
\* changes no byte outside the record it writes; after writing a record of
\* 112 + compressedLen bytes at offset the file is as long as the larger of
\* its old length and offset + 112 + compressedLen
C6_WriteNeverShrinks ==
    /\ Len(db) >= Len(db0)
    /\ pc \in {"write", "index", "done"} =>
         /\ \A i \in 1..Len(writes) : Len(db) >= RecordEnd(writes[i])
         /\ Len(db) > Len(db0) => \E i \in 1..Len(writes) : Len(db) = RecordEnd(writes[i])
         /\ \A p \in 1..Len(db0) :
                (\A i \in 1..Len(writes) : p <= writes[i].offset \/ p > RecordEnd(writes[i]))
                    => db[p] = db0[p]

C6_Witness ==
    /\ pc = "done"
    /\ Len(writes) = 1
    /\ 112 + LastWrite.compLen > subsize
    /\ Len(db) = RecordEnd(LastWrite)
    /\ Len(db) > Len(db0)

\* C7 as stated: the raw buffer has length 2 + subchunk_count*(4096+2048+2048)
\* + 256 + 256 with subchunk_count = ceil(height/16), and rawLen of slot 0 of
\* the section table written equals that length
C7_RawLengthAsStated ==
    (pc = "index" /\ size[2] >= 0) =>
        LET w == LastWrite
            rawLen == 2 + ((size[2] + 15) \div 16) * (4096 + 2048 + 2048) + 256 + 256
        IN  /\ w.rawLen = rawLen
            /\ SubSeq(db, w.offset + 29, w.offset + 32) = PackU(rawLen, 4)

\* C7 amended: the raw buffer has length 2 + subchunk_count*(4096+4096+2048)
\* + 256 + 256 with subchunk_count = ceil(height/16), the nibble-plane being
\* 4096 bytes whose second half is zero; slot 0 of the section table written
\* holds flag 0, the distance 112 from the magic to the payload, the number
\* of compressed bytes written and the raw length; slots 1 to 5 hold
\* (-1, 0, 0, 0)
C7_SectionTable ==
    (pc = "index" /\ size[2] >= 0) =>
        LET w == LastWrite
            count == (size[2] + 15) \div 16
            rawLen == 2 + count * (4096 + 4096 + 2048) + 256 + 256
            table == SubSeq(db, w.offset + 17, w.offset + 112)
        IN  /\ w.rawLen = rawLen
            /\ Len(db) >= w.offset + 112 + w.compLen
            /\ Bind(WrittenRaw, LAMBDA raw :
                   /\ Len(raw) = rawLen
                   /\ \A s \in 0..(count - 1) :
                          SubSeq(raw, 2 + s * 10240 + 4096 + 2048 + 1, 2 + (s + 1) * 10240)
                            = [i \in 1..4096 |-> 0])
            /\ SubSeq(db, w.offset + 113, w.offset + 114) = <<120, 156>>
            /\ SubSeq(table, 1, 16)
                 = <<0, 0, 0, 0>> \o <<112, 0, 0, 0>> \o PackU(w.compLen, 4) \o PackU(rawLen, 4)
            /\ \A slot \in 1..5 :
                 SubSeq(table, 16 * slot + 1, 16 * slot + 16)
                   = <<255, 255, 255, 255, 0, 0, 0, 0, 0, 0, 0, 0, 0, 0, 0, 0>>

C7_Witness ==
    /\ pc = "index"
    /\ size[2] = 17
    /\ LastWrite.rawLen = 2 + 2 * 10240 + 512
    /\ Len(WrittenRaw) = LastWrite.rawLen

\* C8: with index.cdb present, chunk k is written before index record k is
\* appended and index record k before chunk k+1 is written, so the number of
\* index records appended equals the number of chunk records written or is
\* one less; after an error the loop has stopped and the records committed
\* before it are still in the files
C8_WriteThenAppend ==
    indexExists =>
        /\ Len(appends) \in {Len(writes), Len(writes) - 1}
        /\ pc \in {"write", "done"} => Len(appends) = Len(writes)
        /\ pc = "index" => Len(appends) = Len(writes) - 1
        /\ pc \in {"write", "index"} => Len(writes) = cz * ((size[1] + 15) \div 16) + cx
                                          + (IF pc = "index" THEN 1 ELSE 0)
        /\ Len(index) = Len(index0) + 16 * Len(appends)
        /\ SubSeq(index, 1, Len(index0)) = index0
        /\ \A k \in 1..Len(appends) :
               /\ SubSeq(index, Len(index0) + 16 * k - 11, Len(index0) + 16 * k - 10)
                    = PackU(gui.slot + k - 1, 2)
               /\ appends[k].x = writes[k].chunk_x /\ appends[k].z = writes[k].chunk_z
        /\ \A k \in 1..Len(writes) :
               SubSeq(db, writes[k].offset + 1, writes[k].offset + 8)
                 = <<153, 239, 205, 171>>
                   \o encode_position(writes[k].chunk_x, writes[k].chunk_z, 0)

C8_Witness ==
    /\ indexExists
    /\ pc = "error" /\ err = IO_ERROR
    /\ Len(writes) = 2 /\ Len(appends) = 2
    /\ Len(index) = Len(index0) + 32
    /\ db # db0

\* C9: in the biome plane written, the byte at x*16 + z is component 0 of the
\* y = 0 voxel at (chunk_x*16+x, chunk_z*16+z) when that coordinate lies in
\* the footprint [0, width) x [0, length), and 1 when it lies outside
C9_BiomeDefaultOutsideFootprint ==
    (pc = "index" /\ size[2] > 0) =>
        Bind(WrittenRaw, LAMBDA raw :
            \A x \in 0..15 : \A z \in 0..15 :
                LET wx == LastWrite.chunk_x * 16 + x
                    wz == LastWrite.chunk_z * 16 + z
                IN  raw[Len(raw) - 256 + x * 16 + z + 1]
                      = IF 0 <= wx /\ wx < size[1] /\ 0 <= wz /\ wz < size[3]
                        THEN flat[wz * size[1] + wx + 1][1]
                        ELSE 1)

\* C10: in the byte-plane of subchunk s the byte at x*256 + z*16 + sub_y is 0
\* when world_y = s*16 + sub_y >= height and otherwise the low byte of the
\* runtime_id of the voxel at index world_y*(width*length) +
\* (chunk_z*16+z)*width + (chunk_x*16+x); the write succeeds for every
\* runtime_id in [0, 65535]
C10_BytePlaneLowByte ==
    /\ (\A i \in 1..Len(flat) : flat[i][1] \in 0..65535 /\ flat[i][2] \in 0..15)
           => ~(pc = "error" /\ err = VALUE_ERROR)
    /\ pc = "index" =>
         Bind(WrittenRaw, LAMBDA raw :
             \A s \in 0..(((size[2] + 15) \div 16) - 1) : \A p \in 0..4095 :
                 LET x == p \div 256
                     z == (p \div 16) % 16
                     world_y == s * 16 + (p % 16)
                     idx == world_y * (size[1] * size[3])
                            + (LastWrite.chunk_z * 16 + z) * size[1]
                            + (LastWrite.chunk_x * 16 + x)
                 IN  raw[2 + s * (BYTE_PLANE + NIBBLE_PLANE + UNKNOWN_PLANE) + p + 1]
                       = IF world_y >= size[2] THEN 0
                         ELSE IF 0 <= idx /\ idx < Len(flat) THEN flat[idx + 1][1] % 256
                         ELSE 0)

====
